---- MODULE Spec2Model ----
(***************************************************************************)
(* A model of generate_rss.py: the HTML sanitizer clean_html_for_rss, the  *)
(* plain-text extractor clean_html_to_text, the pagination loop            *)
(* fetch_all_stories and the feed assembler create_rss_feed.               *)
(*                                                                         *)
(* A Python str is a sequence of units.  A unit is one character, or the   *)
(* markup of one tag (<p>, </p>, <br/>, <a class=".." href="..">), which   *)
(* the string-level steps of the code never look into.  Attribute values   *)
(* are opaque: a tag's attributes are the sequence of their names.         *)
(***************************************************************************)
EXTENDS Integers, Sequences, FiniteSets

(***************************************************************************)
(* Characters.                                                             *)
(***************************************************************************)
SP   == " "
NBSP == "nbsp"
NL   == "nl"

\* str.isspace(), which is also what str.strip() strips and what \s matches
IsSpace(c) == c \in {SP, NL, NBSP}

\* bs4's ASCII_SPACES (NBSP is not one of them)
IsAsciiSpace(c) == c \in {SP, NL}

Chr(c)        == [k |-> "chr",      c |-> c,  name |-> "",   attrs |-> <<>>]
StartTag(n,a) == [k |-> "start",    c |-> "", name |-> n,    attrs |-> a]
EndTag(n)     == [k |-> "end",      c |-> "", name |-> n,    attrs |-> <<>>]
EmptyTag(n,a) == [k |-> "startend", c |-> "", name |-> n,    attrs |-> a]

\* the str made of the characters cs
Str(cs) == [i \in 1..Len(cs) |-> Chr(cs[i])]

\* the indices of s, in order
Positions(s) == [i \in 1..Len(s) |-> i]

(***************************************************************************)
(* The parse tree: a forest (sequence) of nodes, a node being a Tag or a   *)
(* NavigableString.                                                        *)
(***************************************************************************)
Text(cs)      == [k |-> "text", name |-> "", attrs |-> <<>>, text |-> cs,   kids |-> <<>>]
Tag(n, a, ks) == [k |-> "tag",  name |-> n,  attrs |-> a,    text |-> <<>>, kids |-> ks]

ALLOWED_TAGS ==
    {"p", "br", "strong", "b", "em", "i", "u",
     "a", "h1", "h2", "h3", "h4", "h5", "h6",
     "ul", "ol", "li", "blockquote", "hr", "sub", "sup"}

ALLOWED_ATTRS(name) == IF name = "a" THEN {"href"} ELSE {}

\* tags the tree builder closes as soon as they open (its empty-element
\* tags; these are the ones that matter here)
VoidTags == {"br", "hr", "img", "input", "meta", "link"}

(***************************************************************************)
(* BeautifulSoup(html_content, "html.parser"): the tree builder keeps a    *)
(* stack of open tags (the bottom frame is the document) and a buffer of   *)
(* character data.                                                         *)
(***************************************************************************)
\* endData: the buffered characters become one string of the open tag; a
\* string of ASCII whitespace only becomes a single newline or space
EndData(stack, data) ==
    IF data = <<>> THEN stack
    ELSE LET n  == Len(stack)
             cs == IF \A i \in 1..Len(data) : IsAsciiSpace(data[i])
                   THEN (IF \E i \in 1..Len(data) : data[i] = NL
                         THEN <<NL>> ELSE <<SP>>)
                   ELSE data
         IN  [stack EXCEPT ![n].kids = Append(@, Text(cs))]

\* popTag: the innermost open tag is closed and becomes a child of the one below
PopTag(stack) ==
    LET n == Len(stack)
        t == stack[n]
    IN  [SubSeq(stack, 1, n - 1) EXCEPT ![n - 1].kids = Append(@, t)]

RECURSIVE PopTimes(_, _)
PopTimes(stack, times) ==
    IF times = 0 THEN stack ELSE PopTimes(PopTag(stack), times - 1)

\* _popToTag: close up to and including the innermost open tag called name;
\* an end tag that matches no open tag closes nothing
PopToTag(stack, name) ==
    LET open == {i \in 2..Len(stack) : stack[i].name = name}
    IN  IF open = {} THEN stack
        ELSE LET top == CHOOSE i \in open : \A j \in open : j <= i
             IN  PopTimes(stack, Len(stack) - top + 1)

RECURSIVE Feed(_, _, _, _)
Feed(units, i, stack, data) ==
    IF i > Len(units)
    THEN LET s == EndData(stack, data) IN PopTimes(s, Len(s) - 1)[1].kids
    ELSE LET u == units[i]
             \* handle_data: the run of characters that starts here
             tags == {m \in i..Len(units) : units[m].k # "chr"}
             stop == IF tags = {} THEN Len(units)
                     ELSE (CHOOSE m \in tags : \A o \in tags : m <= o) - 1
         IN  CASE u.k = "chr" ->
                    Feed(units, stop + 1, stack,
                         data \o [m \in 1..(stop - i + 1) |-> units[i + m - 1].c])
               [] u.k = "start" ->
                    LET s == Append(EndData(stack, data), Tag(u.name, u.attrs, <<>>))
                    IN  Feed(units, i + 1,
                             IF u.name \in VoidTags THEN PopTag(s) ELSE s, <<>>)
               [] u.k = "startend" ->
                    Feed(units, i + 1,
                         PopTag(Append(EndData(stack, data),
                                       Tag(u.name, u.attrs, <<>>))), <<>>)
               [] OTHER ->
                    Feed(units, i + 1, PopToTag(EndData(stack, data), u.name), <<>>)

BeautifulSoup(markup) == Feed(markup, 1, <<Tag("[document]", <<>>, <<>>)>>, <<>>)

(***************************************************************************)
(* Tree queries and str(soup).                                             *)
(***************************************************************************)
\* tag.get_text(): the strings below the nodes, concatenated
RECURSIVE GetText(_)
GetText(nodes) ==
    IF nodes = <<>> THEN <<>>
    ELSE LET h == Head(nodes)
         IN  (IF h.k = "text" THEN h.text ELSE GetText(h.kids)) \o GetText(Tail(nodes))

\* tag.find_all(True) is non-empty: some tag lies below the nodes
HasTags(nodes) == \E i \in 1..Len(nodes) : nodes[i].k = "tag"

\* str(soup): a void tag without contents is written <br/>
RECURSIVE Decode(_)
Decode(nodes) ==
    IF nodes = <<>> THEN <<>>
    ELSE LET h == Head(nodes)
             s == IF h.k = "text" THEN Str(h.text)
                  ELSE IF h.name \in VoidTags /\ h.kids = <<>>
                       THEN <<EmptyTag(h.name, h.attrs)>>
                  ELSE <<StartTag(h.name, h.attrs)>> \o Decode(h.kids)
                           \o <<EndTag(h.name)>>
         IN  s \o Decode(Tail(nodes))

(***************************************************************************)
(* clean_html_for_rss: the passes over the tree.  Each pass of the code    *)
(* walks the list find_all returned, which is in document order: a tag     *)
(* comes before the tags inside it.                                        *)
(***************************************************************************)
\* for tag in soup.find_all(old): tag.name = new
RECURSIVE RenameTags(_, _, _)
RenameTags(nodes, old, new) ==
    [i \in 1..Len(nodes) |->
        IF nodes[i].k = "tag"
        THEN [nodes[i] EXCEPT !.name = IF @ = old THEN new ELSE @,
                              !.kids = RenameTags(@, old, new)]
        ELSE nodes[i]]

\* a slip: the children of an unwrapped tag are not looked at again
RECURSIVE UnwrapDisallowedOnce(_)
UnwrapDisallowedOnce(nodes) ==
    IF nodes = <<>> THEN <<>>
    ELSE LET h  == Head(nodes)
             hs == IF h.k = "text" THEN <<h>>
                   ELSE IF h.name \notin ALLOWED_TAGS THEN h.kids
                   ELSE <<[h EXCEPT !.kids = UnwrapDisallowedOnce(@)]>>
         IN  hs \o UnwrapDisallowedOnce(Tail(nodes))

\* tag.unwrap() for every tag not in ALLOWED_TAGS: the tag goes, its children
\* take its place in its parent
RECURSIVE UnwrapDisallowed(_)
UnwrapDisallowed(nodes) ==
    IF nodes = <<>> THEN <<>>
    ELSE LET h  == Head(nodes)
             hs == IF h.k = "text" THEN <<h>>
                   ELSE IF h.name \notin ALLOWED_TAGS THEN UnwrapDisallowed(h.kids)
                   ELSE <<[h EXCEPT !.kids = UnwrapDisallowed(@)]>>
         IN  hs \o UnwrapDisallowed(Tail(nodes))

\* del tag[attr] for every attribute not in ALLOWED_ATTRS.get(tag.name, [])
RECURSIVE StripAttrs(_)
StripAttrs(nodes) ==
    [i \in 1..Len(nodes) |->
        IF nodes[i].k = "tag"
        THEN [nodes[i] EXCEPT
                !.attrs = SelectSeq(@, LAMBDA a : a \in ALLOWED_ATTRS(nodes[i].name)),
                !.kids  = StripAttrs(@)]
        ELSE nodes[i]]

\* not inner_text.replace(NBSP, '').strip()
HasOnlyWhitespace(cs) == \A i \in 1..Len(cs) : cs[i] = NBSP \/ IsSpace(cs[i])

\* the last pass: a tag other than br and hr with no tag inside it and no
\* real text is replaced by ' ' (it had text) or removed (it had none).  The
\* test is made when the walk reaches the tag, before it reaches the tags
\* inside it.
RECURSIVE RemoveEmptyTags(_)
RemoveEmptyTags(nodes) ==
    IF nodes = <<>> THEN <<>>
    ELSE LET h  == Head(nodes)
             hs == IF h.k = "text" THEN <<h>>
                   ELSE IF h.name \notin {"br", "hr"} /\ ~HasTags(h.kids)
                           /\ HasOnlyWhitespace(GetText(h.kids))
                        THEN (IF GetText(h.kids) # <<>> THEN <<Text(<<SP>>)>> ELSE <<>>)
                   ELSE <<[h EXCEPT !.kids = RemoveEmptyTags(@)]>>
         IN  hs \o RemoveEmptyTags(Tail(nodes))

\* the tree clean_html_for_rss hands to str(soup)
CleanedSoup(html_content) ==
    RemoveEmptyTags(StripAttrs(UnwrapDisallowed(
        RenameTags(RenameTags(BeautifulSoup(html_content), "b", "strong"),
                   "i", "em"))))

(***************************************************************************)
(* clean_html_for_rss: the steps on the serialized string.                 *)
(***************************************************************************)
IsChr(u, c) == u.k = "chr" /\ u.c = c
IsSpaceUnit(u) == u.k = "chr" /\ IsSpace(u.c)

\* cleaned.replace(NBSP, ' ')
ReplaceNbsp(s) == [i \in 1..Len(s) |-> IF IsChr(s[i], NBSP) THEN Chr(SP) ELSE s[i]]

\* re.sub(r' {2,}', ' ', cleaned)
CollapseSpaces(s) ==
    LET kept == SelectSeq(Positions(s), LAMBDA i : ~(i > 1 /\ IsChr(s[i], SP) /\ IsChr(s[i - 1], SP)))
    IN  [n \in 1..Len(kept) |-> s[kept[n]]]

\* re.sub(r'\n\s*\n', '\n', cleaned): a match starts at the first newline of
\* a run of whitespace and ends at the last one; what follows the first
\* newline, up to the last, goes
CollapseBlankLines(s) ==
    LET InMatch(i) ==
            /\ IsSpaceUnit(s[i])
            /\ \E a \in 1..(i - 1) :
                  /\ IsChr(s[a], NL)
                  /\ \A m \in a..i : IsSpaceUnit(s[m])
            /\ \E b \in i..Len(s) :
                  /\ IsChr(s[b], NL)
                  /\ \A m \in i..b : IsSpaceUnit(s[m])
        kept == SelectSeq(Positions(s), LAMBDA i : ~InMatch(i))
    IN  [n \in 1..Len(kept) |-> s[kept[n]]]

\* str.strip()
Strip(s) ==
    LET lead  == {i \in 1..Len(s) : \A m \in 1..i : IsSpaceUnit(s[m])}
        trail == {i \in 1..Len(s) : \A m \in i..Len(s) : IsSpaceUnit(s[m])}
    IN  SubSeq(s, Cardinality(lead) + 1, Len(s) - Cardinality(trail))

clean_html_for_rss(html_content) ==
    IF html_content = <<>> THEN <<>>
    ELSE Strip(CollapseBlankLines(CollapseSpaces(ReplaceNbsp(
            Decode(CleanedSoup(html_content))))))

(***************************************************************************)
(* Python values of a story's fields: a key that is missing, None, a str   *)
(* or an int.                                                              *)
(***************************************************************************)
Absent   == [t |-> "absent", s |-> <<>>, n |-> 0]
None     == [t |-> "none",   s |-> <<>>, n |-> 0]
PyStr(s) == [t |-> "str",    s |-> s,    n |-> 0]
PyInt(n) == [t |-> "int",    s |-> <<>>, n |-> n]

\* the truth value of v
Truthy(v) == (v.t = "str" /\ v.s # <<>>) \/ (v.t = "int" /\ v.n # 0)

\* story.get(key, default)
Get(story, key, default) == IF story[key].t = "absent" THEN default ELSE story[key]

\* a or b
Or(a, b) == IF Truthy(a) THEN a ELSE b

Digit(d) == <<"0", "1", "2", "3", "4", "5", "6", "7", "8", "9">>[d + 1]

\* the decimal digits of a natural number
RECURSIVE Digits(_)
Digits(n) == IF n < 10 THEN <<Digit(n)>> ELSE Append(Digits(n \div 10), Digit(n % 10))

\* str(v)
ToStr(v) ==
    CASE v.t = "str" -> v.s
      [] v.t = "int" -> Str(IF v.n < 0 THEN <<"-">> \o Digits(-v.n) ELSE Digits(v.n))
      [] OTHER       -> Str(<<"N", "o", "n", "e">>)

(***************************************************************************)
(* clean_html_to_text.                                                     *)
(***************************************************************************)
\* the strings of the tree, in document order
RECURSIVE AllStrings(_)
AllStrings(nodes) ==
    IF nodes = <<>> THEN <<>>
    ELSE LET h == Head(nodes)
         IN  (IF h.k = "text" THEN <<h.text>> ELSE AllStrings(h.kids))
                \o AllStrings(Tail(nodes))

\* separator.join(strings)
RECURSIVE Join(_, _)
Join(strings, separator) ==
    IF strings = <<>> THEN <<>>
    ELSE IF Len(strings) = 1 THEN strings[1]
    ELSE strings[1] \o separator \o Join(Tail(strings), separator)

\* re.sub(r'\s+', ' ', clean)
CollapseWhitespace(cs) ==
    LET kept == SelectSeq(Positions(cs), LAMBDA i : ~(i > 1 /\ IsSpace(cs[i]) /\ IsSpace(cs[i - 1])))
    IN  [n \in 1..Len(kept) |-> IF IsSpace(cs[kept[n]]) THEN SP ELSE cs[kept[n]]]

clean_html_to_text(text) ==
    IF text = <<>> THEN <<>>
    ELSE LET clean == Join(AllStrings(BeautifulSoup(text)), <<SP>>)
         IN  Strip(Str(CollapseWhitespace(clean)))

(***************************************************************************)
(* create_rss_feed.  An element is a tag, its attributes, its text and its *)
(* children; the document written to output_file is the pretty-printed     *)
(* rss element, whose one child is the channel.                            *)
(***************************************************************************)
Element(tag, attrib, text) ==
    [tag |-> tag, attrib |-> attrib, text |-> text, children |-> <<>>]

Attr(name, value) == [name |-> name, value |-> value]

DescLimit == 300
DescKeep  == 297

UntitledStory ==
    Str(<<"U", "n", "t", "i", "t", "l", "e", "d", " ", "S", "t", "o",
          "r", "y">>)

Ellipsis == Str(<<".", ".", ".">>)

IssuePrefix == Str(<<"I", "s", "s", "u", "e", " ">>)

ImageJpeg ==
    Str(<<"i", "m", "a", "g", "e", "/", "j", "p", "e", "g">>)

ChannelTitle ==
    Str(<<"J", "E", "M", ".", "t", "v", " ", "-", " ", "H", "e", "r",
          "e", "'", "s", " ", "M", "y", " ", "S", "t", "o", "r", "y",
          " ", "A", "r", "c", "h", "i", "v", "e">>)

ChannelLink ==
    Str(<<"h", "t", "t", "p", "s", ":", "/", "/", "v", "i", "d", "e",
          "o", "s", ".", "j", "e", "m", ".", "t", "v", "/", "h", "m",
          "s", "/", "a", "r", "c", "h", "i", "v", "e">>)

ChannelDescription ==
    Str(<<"S", "t", "o", "r", "i", "e", "s", " ", "f", "r", "o", "m",
          " ", "t", "h", "e", " ", "H", "e", "r", "e", "'", "s", " ",
          "M", "y", " ", "S", "t", "o", "r", "y", " ", "a", "r", "c",
          "h", "i", "v", "e", " ", "a", "t", " ", "J", "E", "M", ".",
          "t", "v", " ", "-", " ", "A", "u", "t", "o", "-", "u", "p",
          "d", "a", "t", "e", "d", " ", "h", "o", "u", "r", "l", "y">>)

\* datetime.utcnow() in the format of the code, at one instant
LastBuildDate ==
    Str(<<"T", "h", "u", ",", " ", "2", "9", " ", "O", "c", "t", " ",
          "2", "0", "2", "6", " ", "0", "0", ":", "0", "0", ":", "0",
          "0", " ", "G", "M", "T">>)

\* the children of the channel before the first item
ChannelHead ==
    <<Element("title", <<>>, PyStr(ChannelTitle)),
      Element("link", <<>>, PyStr(ChannelLink)),
      Element("description", <<>>, PyStr(ChannelDescription)),
      Element("language", <<>>, PyStr(Str(<<"e", "n", "-", "u", "s">>))),
      Element("lastBuildDate", <<>>, PyStr(LastBuildDate))>>

ItemTitle(story) == <<Element("title", <<>>, Get(story, "name", PyStr(UntitledStory)))>>

\* a slip: the guid is always the id
ItemLinkGuidAlwaysId(story) ==
    LET link == Get(story, "link", PyStr(<<>>))
    IN  (IF Truthy(link) THEN <<Element("link", <<>>, link)>> ELSE <<>>)
            \o <<Element("guid", <<Attr("isPermaLink", Str(<<"f", "a", "l", "s", "e">>))>>,
                         PyStr(ToStr(Get(story, "id", PyStr(<<>>)))))>>

ItemLinkGuid(story) ==
    LET link == Get(story, "link", PyStr(<<>>))
    IN  IF Truthy(link)
        THEN <<Element("link", <<>>, link),
               Element("guid", <<Attr("isPermaLink", Str(<<"t", "r", "u", "e">>))>>, link)>>
        ELSE <<Element("guid", <<Attr("isPermaLink", Str(<<"f", "a", "l", "s", "e">>))>>,
                       PyStr(ToStr(Get(story, "id", PyStr(<<>>)))))>>

\* a slip: the cut keeps DescLimit characters before the ellipsis
ItemDescriptionCutAtLimit(story) ==
    LET description == Or(Get(story, "description", None),
                          Get(story, "content", PyStr(<<>>)))
        clean_desc  == clean_html_to_text(description.s)
    IN  IF Truthy(description)
        THEN <<Element("description", <<>>,
                       PyStr(IF Len(clean_desc) > DescLimit
                             THEN SubSeq(clean_desc, 1, DescLimit) \o Ellipsis
                             ELSE clean_desc))>>
        ELSE <<>>

\* a slip: the content comes before the description
ItemDescriptionContentFirst(story) ==
    LET description == Or(Get(story, "content", None),
                          Get(story, "description", PyStr(<<>>)))
        clean_desc  == clean_html_to_text(description.s)
    IN  IF Truthy(description)
        THEN <<Element("description", <<>>,
                       PyStr(IF Len(clean_desc) > DescLimit
                             THEN SubSeq(clean_desc, 1, DescKeep) \o Ellipsis
                             ELSE clean_desc))>>
        ELSE <<>>

ItemDescription(story) ==
    LET description == Or(Get(story, "description", None),
                          Get(story, "content", PyStr(<<>>)))
        clean_desc  == clean_html_to_text(description.s)
    IN  IF Truthy(description)
        THEN <<Element("description", <<>>,
                       PyStr(IF Len(clean_desc) > DescLimit
                             THEN SubSeq(clean_desc, 1, DescKeep) \o Ellipsis
                             ELSE clean_desc))>>
        ELSE <<>>

ItemContent(story) ==
    LET content == Get(story, "content", PyStr(<<>>))
    IN  IF Truthy(content)
        THEN <<Element("content:encoded", <<>>, PyStr(clean_html_for_rss(content.s)))>>
        ELSE <<>>

ItemEnclosure(story) ==
    LET image == Or(Get(story, "image", None), Get(story, "thumbnail", None))
    IN  IF Truthy(image)
        THEN <<Element("enclosure",
                       <<Attr("url", image.s), Attr("type", ImageJpeg)>>, None)>>
        ELSE <<>>

ItemCategory(story) ==
    LET issue == Get(story, "issue_number", None)
    IN  IF Truthy(issue)
        THEN <<Element("category", <<>>, PyStr(IssuePrefix \o ToStr(issue)))>>
        ELSE <<>>

\* the body of the loop: the item of one story
Item(story) ==
    [tag |-> "item", attrib |-> <<>>, text |-> None,
     children |-> ItemTitle(story) \o ItemLinkGuid(story) \o ItemDescription(story)
                    \o ItemContent(story) \o ItemEnclosure(story) \o ItemCategory(story)]

\* a slip: each item is put before the one made before it
RECURSIVE AppendItemsReversed(_, _)
AppendItemsReversed(channel, stories) ==
    IF stories = <<>> THEN channel
    ELSE AppendItemsReversed(SubSeq(channel, 1, Len(ChannelHead))
                                \o <<Item(Head(stories))>>
                                \o SubSeq(channel, Len(ChannelHead) + 1, Len(channel)),
                             Tail(stories))

\* for story in stories: item = ET.SubElement(channel, 'item') ...
RECURSIVE AppendItems(_, _)
AppendItems(channel, stories) ==
    IF stories = <<>> THEN channel
    ELSE AppendItems(Append(channel, Item(Head(stories))), Tail(stories))

(***************************************************************************)
(* fetch_all_stories: what one response does to the loop.  A response is   *)
(* a failure (requests.get raised, raise_for_status raised, or             *)
(* response.json() raised) or a decoded body with its data (empty when the *)
(* key is missing) and the total_pages of its meta.                        *)
(***************************************************************************)
FailureKinds == {"request_error", "http_error", "bad_json"}

Failure(kind) == [kind |-> kind, data |-> <<>>, total_pages |-> Absent]

Body(data, total_pages) == [kind |-> "ok", data |-> data, total_pages |-> total_pages]

Failed(response) == response.kind \in FailureKinds

\* meta.get('total_pages', 1)
TotalPages(response) == Get(response, "total_pages", PyInt(1))

\* page >= meta.get('total_pages', 1) raises when total_pages is not a number
ComparisonRaises(response) == TotalPages(response).t # "int"

\* a slip: page > total_pages
IsLastPageStrict(page, response) == page > TotalPages(response).n

\* page >= meta.get('total_pages', 1)
IsLastPage(page, response) == page >= TotalPages(response).n

(***************************************************************************)
(* The inputs of the sanitizer: every forest of at most MaxNodes nodes     *)
(* over the characters and tags below, written out as HTML.                *)
(***************************************************************************)
MaxNodes == 3

InputChars == {"x", SP, NBSP, NL}

\* every tag of the input carries a style-like and a link attribute
InputAttrs == <<"class", "href">>

InputTags == {"p", "span", "b", "br", "a"}

RECURSIVE InputForests(_)
RECURSIVE InputTrees(_)
InputTrees(n) ==
    IF n = 1
    THEN {Text(<<c>>) : c \in InputChars} \cup {Tag(t, InputAttrs, <<>>) : t \in InputTags}
    ELSE {Tag(t, InputAttrs, f) : t \in InputTags \ VoidTags, f \in InputForests(n - 1)}

InputForests(n) ==
    IF n = 0 THEN {<<>>}
    ELSE UNION {{<<t>> \o f : t \in InputTrees(m), f \in InputForests(n - m)} : m \in 1..n}

\* the HTML source of a forest: a void tag is written <br>
RECURSIVE Markup(_)
Markup(nodes) ==
    IF nodes = <<>> THEN <<>>
    ELSE LET h == Head(nodes)
             s == IF h.k = "text" THEN Str(h.text)
                  ELSE IF h.name \in VoidTags THEN <<StartTag(h.name, h.attrs)>>
                  ELSE <<StartTag(h.name, h.attrs)>> \o Markup(h.kids)
                           \o <<EndTag(h.name)>>
         IN  s \o Markup(Tail(nodes))

\* the HTML of every forest of at most max nodes
InputHtml(max) == {Markup(f) : f \in UNION {InputForests(n) : n \in 0..max}}

(***************************************************************************)
(* The inputs of the feed assembler.                                       *)
(***************************************************************************)
MaxStories == 2
Slack      == 1

Rep(c, n) == [i \in 1..n |-> Chr(c)]

\* <p>xx...x</p><b>y</b>: its text is n characters long
LongHtml(n) ==
    <<StartTag("p", <<>>)>> \o Rep("x", n - 2) \o <<EndTag("p")>>
        \o <<StartTag("b", <<>>), Chr("y"), EndTag("b")>>

\* <p> x&nbsp;\nx</p><b>y</b>
ShortHtml ==
    <<StartTag("p", <<>>), Chr(SP), Chr("x"), Chr(NBSP), Chr(NL), Chr("x"), EndTag("p"),
      StartTag("b", <<>>), Chr("y"), EndTag("b")>>

\* <span class=".."><p>Hi</p><i> </i></span>
ContentHtml ==
    <<StartTag("span", <<"class">>), StartTag("p", <<>>), Chr("H"), Chr("i"),
      EndTag("p"), StartTag("i", <<>>), Chr(SP), EndTag("i"), EndTag("span")>>

BaseStory ==
    [id |-> PyInt(42), name |-> PyStr(Str(<<"T">>)), link |-> Absent,
     description |-> Absent, content |-> Absent, image |-> Absent,
     thumbnail |-> Absent, issue_number |-> Absent]

\* stories that differ from BaseStory in the name, in the link, in the id,
\* in the description and the content, and in the image and the issue
StorySet ==
    {[BaseStory EXCEPT !.name = n] : n \in {Absent, None, PyStr(<<>>)}}
    \cup
    {[BaseStory EXCEPT !.link = l] : l \in {None, PyStr(<<>>), PyStr(Str(<<"L">>))}}
    \cup
    {[BaseStory EXCEPT !.id = i] : i \in {Absent, PyInt(0), PyInt(107)}}
    \cup
    {[BaseStory EXCEPT !.id = PyInt(107), !.link = PyStr(Str(<<"L">>))]}
    \cup
    {[BaseStory EXCEPT !.description = d, !.content = c] :
        d \in {Absent, PyStr(<<>>), PyStr(ShortHtml)},
        c \in {Absent, PyStr(ContentHtml)}}
    \cup
    {[BaseStory EXCEPT !.description = None, !.content = PyStr(ContentHtml)],
     [BaseStory EXCEPT !.description = PyStr(<<>>), !.content = PyStr(<<>>)]}
    \cup
    {[BaseStory EXCEPT !.description = PyStr(LongHtml(n))] :
        n \in (DescLimit - Slack)..(DescLimit + Slack)}
    \cup
    {[BaseStory EXCEPT !.description = PyStr(LongHtml(DescLimit + Slack)),
                       !.content = PyStr(ContentHtml)],
     [BaseStory EXCEPT !.content = PyStr(LongHtml(DescLimit))],
     [BaseStory EXCEPT !.content = PyStr(LongHtml(DescLimit + Slack))]}
    \cup
    {[BaseStory EXCEPT !.image = PyStr(Str(<<"I">>))],
     [BaseStory EXCEPT !.thumbnail = PyStr(Str(<<"J">>))],
     [BaseStory EXCEPT !.image = PyStr(Str(<<"I">>)), !.thumbnail = PyStr(Str(<<"J">>)),
                       !.issue_number = PyInt(12)],
     [BaseStory EXCEPT !.image = PyStr(<<>>), !.issue_number = PyInt(0)]}

RECURSIVE StoryLists(_)
StoryLists(n) ==
    IF n = 0 THEN {<<>>}
    ELSE StoryLists(n - 1)
            \cup {Append(l, s) : l \in {m \in StoryLists(n - 1) : Len(m) = n - 1},
                                 s \in StorySet}

(***************************************************************************)
(* The server of fetch_all_stories: what it may answer to one request.     *)
(***************************************************************************)
MaxTotalPages == 3

PageStories ==
    {<<>>,
     <<[BaseStory EXCEPT !.id = PyInt(1)]>>,
     <<[BaseStory EXCEPT !.id = PyInt(2)], [BaseStory EXCEPT !.id = PyInt(1)]>>}

\* total_pages is missing, null, or a number up to MaxTotalPages
PageCounts == {Absent, None} \cup {PyInt(n) : n \in 0..MaxTotalPages}

VARIABLES
    pc,            \* where the run is
    html_content,  \* the argument of clean_html_for_rss
    soup,          \* the tree clean_html_for_rss serializes
    cleaned,       \* what clean_html_for_rss returned
    recleaned,     \* what clean_html_for_rss returns for cleaned
    stories,       \* the argument of create_rss_feed
    channel,       \* the children of the channel element of the feed
    page,          \* fetch_all_stories: the page to request next
    all_stories,   \* fetch_all_stories: the stories fetched so far
    requests,      \* the page numbers requested from the server, in order
    responses      \* what the server answered, in order

sanitizerVars == <<html_content, soup, cleaned, recleaned>>
feedVars      == <<stories, channel>>
fetchVars     == <<page, all_stories, requests, responses>>

vars == <<pc, sanitizerVars, feedVars, fetchVars>>

\* the variables of the parts a specification does not run
NoSanitizer ==
    /\ html_content = <<>>
    /\ soup = <<>>
    /\ cleaned = <<>>
    /\ recleaned = <<>>

NoFeed ==
    /\ stories = <<>>
    /\ channel = <<>>

NoFetch ==
    /\ page = 1
    /\ all_stories = <<>>
    /\ requests = <<>>
    /\ responses = <<>>

(***************************************************************************)
(* The sanitizer, applied to an input and then to its own output.          *)
(***************************************************************************)
SanitizeInit ==
    /\ pc = "raw"
    /\ html_content \in InputHtml(MaxNodes)
    /\ soup = <<>>
    /\ cleaned = <<>>
    /\ recleaned = <<>>
    /\ NoFeed
    /\ NoFetch

Sanitize ==
    /\ pc = "raw"
    /\ pc' = "cleaned"
    /\ soup' = IF html_content = <<>> THEN <<>> ELSE CleanedSoup(html_content)
    /\ cleaned' = clean_html_for_rss(html_content)
    /\ UNCHANGED <<html_content, recleaned, feedVars, fetchVars>>

SanitizeAgain ==
    /\ pc = "cleaned"
    /\ pc' = "recleaned"
    /\ recleaned' = clean_html_for_rss(cleaned)
    /\ UNCHANGED <<html_content, soup, cleaned, feedVars, fetchVars>>

SanitizeNext == Sanitize \/ SanitizeAgain

SpecSanitize == SanitizeInit /\ [][SanitizeNext]_vars

(***************************************************************************)
(* The feed assembler, applied to a list of stories.                       *)
(***************************************************************************)
FeedInit ==
    /\ pc = "stories"
    /\ stories \in StoryLists(MaxStories)
    /\ channel = <<>>
    /\ NoSanitizer
    /\ NoFetch

create_rss_feed ==
    /\ pc = "stories"
    /\ pc' = "written"
    /\ channel' = AppendItems(ChannelHead, stories)
    /\ UNCHANGED <<stories, sanitizerVars, fetchVars>>

FeedNext == create_rss_feed

SpecFeed == FeedInit /\ [][FeedNext]_vars

(***************************************************************************)
(* fetch_all_stories: one action per way an iteration of the loop ends.    *)
(* A break leads to the return of all_stories.                             *)
(***************************************************************************)
FetchInit ==
    /\ pc = "fetching"
    /\ page = 1
    /\ all_stories = <<>>
    /\ requests = <<>>
    /\ responses = <<>>
    /\ NoSanitizer
    /\ NoFeed

\* the request for the page is made and answered
Exchange(response) ==
    /\ pc = "fetching"
    /\ requests' = Append(requests, page)
    /\ responses' = Append(responses, response)
    /\ UNCHANGED <<sanitizerVars, feedVars>>

\* a slip: the failure throws away what was fetched
RequestFailsDiscarding ==
    \E kind \in FailureKinds :
        /\ Exchange(Failure(kind))
        /\ pc' = "returned"
        /\ all_stories' = <<>>
        /\ UNCHANGED page

\* except Exception: break
RequestFails ==
    \E kind \in FailureKinds :
        /\ Exchange(Failure(kind))
        /\ pc' = "returned"
        /\ UNCHANGED <<page, all_stories>>

\* if not stories: break
EmptyPage ==
    \E total \in PageCounts :
        /\ Exchange(Body(<<>>, total))
        /\ pc' = "returned"
        /\ UNCHANGED <<page, all_stories>>

\* the comparison with total_pages raises, after the stories were added
BadTotalPages ==
    \E data \in PageStories \ {<<>>}, total \in PageCounts :
        /\ ComparisonRaises(Body(data, total))
        /\ Exchange(Body(data, total))
        /\ all_stories' = all_stories \o data
        /\ pc' = "returned"
        /\ UNCHANGED page

\* if page >= meta.get('total_pages', 1): break
LastPage ==
    \E data \in PageStories \ {<<>>}, total \in PageCounts :
        /\ ~ComparisonRaises(Body(data, total))
        /\ IsLastPage(page, Body(data, total))
        /\ Exchange(Body(data, total))
        /\ all_stories' = all_stories \o data
        /\ pc' = "returned"
        /\ UNCHANGED page

\* page += 1
NextPage ==
    \E data \in PageStories \ {<<>>}, total \in PageCounts :
        /\ ~ComparisonRaises(Body(data, total))
        /\ ~IsLastPage(page, Body(data, total))
        /\ Exchange(Body(data, total))
        /\ all_stories' = all_stories \o data
        /\ page' = page + 1
        /\ pc' = "fetching"

FetchNext == RequestFails \/ EmptyPage \/ BadTotalPages \/ LastPage \/ NextPage

SpecFetch == FetchInit /\ [][FetchNext]_vars

\* the loop runs on while it can: nothing but a break stops it
FairSpecFetch == SpecFetch /\ WF_vars(FetchNext)

(***************************************************************************)
(* Properties of the sanitizer.                                            *)
(***************************************************************************)
\* every tag of a forest, at any depth
RECURSIVE TagsOf(_)
TagsOf(nodes) ==
    UNION {IF nodes[i].k = "tag" THEN {nodes[i]} \cup TagsOf(nodes[i].kids) ELSE {}
           : i \in 1..Len(nodes)}

\* the tags of the input that lie directly inside a tag not in ALLOWED_TAGS
NestedIn(nodes, names) ==
    {t \in TagsOf(nodes) : \E w \in TagsOf(nodes) :
        w.name \in names /\ \E i \in 1..Len(w.kids) : w.kids[i] = t}

Sanitized == pc \in {"cleaned", "recleaned"}

\* C3: allow-list closure.  In the tree clean_html_for_rss serializes, and in
\* the string it returns, every tag name is in ALLOWED_TAGS and every
\* attribute of a tag is in ALLOWED_ATTRS for that tag.
AllowListClosure ==
    Sanitized =>
        /\ \A t \in TagsOf(soup) :
              /\ t.name \in ALLOWED_TAGS
              /\ \A i \in 1..Len(t.attrs) : t.attrs[i] \in ALLOWED_ATTRS(t.name)
        /\ \A i \in 1..Len(cleaned) :
              cleaned[i].k # "chr" =>
                  /\ cleaned[i].name \in ALLOWED_TAGS
                  /\ \A j \in 1..Len(cleaned[i].attrs) :
                        cleaned[i].attrs[j] \in ALLOWED_ATTRS(cleaned[i].name)

\* a disallowed wrapper nested in a disallowed wrapper was unwrapped around a
\* tag that survives without the attributes it came with
AllowListClosureWitness ==
    /\ Sanitized
    /\ \E w \in NestedIn(BeautifulSoup(html_content), {"span"}) :
          w.name = "span" /\ w.kids # <<>>
    /\ \E t \in TagsOf(soup) : t.attrs = <<>>
    /\ \E i \in 1..Len(html_content) : html_content[i].attrs = InputAttrs

\* a tag with no tag inside it and no character that is neither whitespace
\* nor a non-breaking space
Degenerate(t) ==
    /\ t.name \notin {"br", "hr"}
    /\ ~HasTags(t.kids)
    /\ HasOnlyWhitespace(GetText(t.kids))

\* C8: clean_html_for_rss never emits an empty or degenerate tag: every tag
\* of its output tree other than br and hr that has no tag inside it has
\* some text that is neither whitespace nor a non-breaking space.
NoDegenerateTag == Sanitized => \A t \in TagsOf(soup) : ~Degenerate(t)

\* C2: clean_html_for_rss is idempotent: cleaning its own output returns
\* that output unchanged.
Idempotent == pc = "recleaned" => recleaned = cleaned

(***************************************************************************)
(* Properties of the feed assembler.                                       *)
(***************************************************************************)
\* the item elements of the channel, in order
Items == SelectSeq(channel, LAMBDA e : e.tag = "item")

\* the children of an element that have the tag
Children(e, tag) == SelectSeq(e.children, LAMBDA c : c.tag = tag)

Written == pc = "written"


TitleOf(item)       == Children(item, "title")
LinkOf(item)        == Children(item, "link")
GuidOf(item)        == Children(item, "guid")
DescriptionOf(item) == Children(item, "description")

PermaLink(flag) == <<Attr("isPermaLink", flag)>>
IsTrue  == Str(<<"t", "r", "u", "e">>)
IsFalse == Str(<<"f", "a", "l", "s", "e">>)

\* C1: the title of every item is the story's name, and "Untitled Story"
\* when the name is absent, None or empty.
TitleIsNameOrUntitled ==
    Written =>
        /\ Len(Items) = Len(stories)
        /\ \A i \in 1..Len(stories) :
              TitleOf(Items[i]) =
                  <<Element("title", <<>>,
                            IF Truthy(stories[i].name) THEN stories[i].name
                            ELSE PyStr(UntitledStory))>>

\* the text create_rss_feed extracts the description of an item from: the
\* story's description, or else its content
ExtractedText(story) ==
    clean_html_to_text(IF Truthy(story.description) THEN story.description.s
                       ELSE story.content.s)

\* C4: the truncation law.  An extracted text of more than 300 characters is
\* emitted as its first 297 characters and "...", 300 characters in all; a
\* text of at most 300 characters is emitted unchanged; no description is
\* longer than 300 characters.
TruncationLaw ==
    Written =>
        \A i \in 1..Len(Items) : \A n \in 1..Len(DescriptionOf(Items[i])) :
            LET emitted   == DescriptionOf(Items[i])[n].text.s
                extracted == ExtractedText(stories[i])
            IN  /\ Len(emitted) <= 300
                /\ Len(extracted) > 300 =>
                      /\ Len(emitted) = 300
                      /\ SubSeq(emitted, 1, 297) = SubSeq(extracted, 1, 297)
                      /\ SubSeq(emitted, 298, 300) = Ellipsis
                /\ Len(extracted) <= 300 => emitted = extracted

\* one item's text was cut and another's, of exactly 300 characters, was not
TruncationWitness ==
    /\ Written
    /\ \E i, j \in 1..Len(Items) :
          /\ Len(ExtractedText(stories[i])) > 300
          /\ Len(DescriptionOf(Items[i])) = 1
          /\ Len(ExtractedText(stories[j])) = 300
          /\ Len(DescriptionOf(Items[j])) = 1
          /\ DescriptionOf(Items[j])[1].text.s # <<>>

\* the extracted text as the truncation law emits it
Excerpt(extracted) ==
    IF Len(extracted) > 300 THEN SubSeq(extracted, 1, 297) \o Ellipsis ELSE extracted

\* C9: the description of an item comes from story.description when that is
\* present and non-empty, whatever story.content is; otherwise from
\* story.content; when both are absent or empty the item has no
\* description element.  (The text is the extraction, cut as C4 says.)
DescriptionSource ==
    Written =>
        \A i \in 1..Len(Items) :
            DescriptionOf(Items[i]) =
                IF Truthy(stories[i].description)
                THEN <<Element("description", <<>>,
                        PyStr(Excerpt(clean_html_to_text(stories[i].description.s))))>>
                ELSE IF Truthy(stories[i].content)
                THEN <<Element("description", <<>>,
                        PyStr(Excerpt(clean_html_to_text(stories[i].content.s))))>>
                ELSE <<>>

\* one story has a description and a content with different texts, another
\* has a content only
DescriptionSourceWitness ==
    /\ Written
    /\ \E i, j \in 1..Len(Items) :
          /\ Truthy(stories[i].description)
          /\ Truthy(stories[i].content)
          /\ clean_html_to_text(stories[i].description.s)
                # clean_html_to_text(stories[i].content.s)
          /\ ~Truthy(stories[j].description)
          /\ Truthy(stories[j].content)
          /\ DescriptionOf(Items[j]) # <<>>

\* C5: guid exclusivity.  Every item has exactly one guid.  With a non-empty
\* story.link the item has a link and a guid that both hold the link, the
\* guid with isPermaLink='true'; otherwise it has no link and its guid is
\* str(story.id) with isPermaLink='false'.
GuidExclusivity ==
    Written =>
        \A i \in 1..Len(Items) :
            /\ Len(GuidOf(Items[i])) = 1
            /\ IF Truthy(stories[i].link)
               THEN /\ LinkOf(Items[i]) = <<Element("link", <<>>, stories[i].link)>>
                    /\ GuidOf(Items[i]) =
                          <<Element("guid", PermaLink(IsTrue), stories[i].link)>>
               ELSE /\ LinkOf(Items[i]) = <<>>
                    /\ GuidOf(Items[i]) =
                          <<Element("guid", PermaLink(IsFalse),
                                    PyStr(IF stories[i].id.t = "absent" THEN <<>>
                                          ELSE ToStr(stories[i].id)))>>

\* one item's guid is its link, another's is the decimal form of its id
GuidExclusivityWitness ==
    /\ Written
    /\ \E i, j \in 1..Len(Items) :
          /\ Truthy(stories[i].link)
          /\ stories[i].id.t = "int"
          /\ ~Truthy(stories[j].link)
          /\ GuidOf(Items[j])[1].text = PyStr(Str(<<"1", "0", "7">>))

\* C7: create_rss_feed is order-preserving and one-to-one: the channel holds
\* one item per story, and the i-th item is the item of the i-th story.
OneItemPerStoryInOrder ==
    Written =>
        /\ Len(Items) = Len(stories)
        /\ Len(channel) = Len(ChannelHead) + Len(stories)
        /\ \A i \in 1..Len(stories) : Items[i] = Item(stories[i])

\* two different stories, one with nothing but a name and an id
OneItemPerStoryWitness ==
    /\ Written
    /\ Len(stories) = MaxStories
    /\ Item(stories[1]) # Item(stories[2])
    /\ \E i \in 1..Len(stories) : Len(Items[i].children) = 2

(***************************************************************************)
(* Properties of fetch_all_stories.                                        *)
(***************************************************************************)
\* the data of the first n responses, one after the other
RECURSIVE DataUpTo(_)
DataUpTo(n) == IF n = 0 THEN <<>> ELSE DataUpTo(n - 1) \o responses[n].data

Returned == pc = "returned"

\* C6: a failure while retrieving page k ends the loop, with no retry and no
\* further request, and the returned list is the stories of the pages
\* 1..k-1, unchanged and in order.
FailureKeepsEarlierPages ==
    \A k \in 1..Len(responses) :
        Failed(responses[k]) =>
            /\ Returned
            /\ k = Len(responses)
            /\ Len(requests) = k
            /\ \A j \in 1..(k - 1) : requests[j] # requests[k]
            /\ \A j \in 1..(k - 1) : ~Failed(responses[j])
            /\ all_stories = DataUpTo(k - 1)

\* the third page failed after two pages of stories
FailureKeepsEarlierPagesWitness ==
    /\ Returned
    /\ Len(responses) = 3
    /\ Failed(responses[3])
    /\ Len(all_stories) >= 3
    /\ all_stories = responses[1].data \o responses[2].data

\* a response after which the loop makes no request
Final(k) ==
    \/ Failed(responses[k])
    \/ responses[k].data = <<>>
    \/ TotalPages(responses[k]).t = "int" /\ TotalPages(responses[k]).n <= requests[k]

PaginationInvariant ==
    /\ Len(responses) = Len(requests)
    /\ \A k \in 1..Len(requests) : requests[k] = k
    /\ \A k \in 1..(Len(requests) - 1) : ~Final(k)
    /\ (\E k \in 1..Len(requests) : Final(k)) => Returned
    /\ all_stories = DataUpTo(Len(responses))

\* C10: the pagination protocol.  Pages are requested consecutively from 1,
\* each once; after an empty response, a response for page p whose
\* total_pages (1 when missing) is <= p, or a failure, no request is made;
\* the list is the concatenation, in page order, of the data of the
\* successful responses; and with total_pages bounded the loop terminates.
PaginationProtocol == []PaginationInvariant /\ <>Returned

\* the loop ended on the last of three pages, each with stories
PaginationWitness ==
    /\ Returned
    /\ requests = <<1, 2, 3>>
    /\ \A k \in 1..3 : ~Failed(responses[k]) /\ responses[k].data # <<>>
    /\ TotalPages(responses[3]) = PyInt(3)

====
